---- MODULE Spec2Model ----
(***************************************************************************)
(* A model of nuwa's dataset record (nuwa/data/db.py, class NuwaDB) and of *)
(* its pose utilities (nuwa/utils/pose_utils.py).                          *)
(*                                                                         *)
(* Five specifications share the variables:                                *)
(*   SpecConv  convert_camera_pose applied repeatedly to one pose          *)
(*   SpecRot   get_rot90_camera_matrices applied repeatedly                *)
(*   SpecNorm  NuwaDB.normalize_cameras on a frame set                     *)
(*   SpecMask  the masking loop of NuwaDB.calculate_object_mask, for every *)
(*             answer of the segmentation oracle                           *)
(*   SpecRun   the whole of NuwaDB.calculate_object_mask, for every choice *)
(*             of its arguments                                            *)
(*                                                                         *)
(* Numbers are exact: poses and intrinsics are integers, flow vectors are  *)
(* integers in half pixels, and the irrational scale of normalize_cameras  *)
(* is held symbolically (see Center).  Floating-point rounding is not      *)
(* modelled.                                                               *)
(***************************************************************************)
EXTENDS Integers, Sequences, FiniteSets, TLC

VARIABLES
    pose,       \* pose utilities: the current 4x4 pose
    pose0,      \* pose utilities: the pose the run started from
    K,          \* pose utilities: the current <<fx, fy, cx, cy>>
    K0,         \* pose utilities: the intrinsics the run started from
    height,     \* pose utilities: the h handed to get_rot90_camera_matrices
    hist,       \* pose utilities: the calls made so far, in order
    perr,       \* pose utilities: "" or the error the last call raised
    frames,     \* NuwaDB.frames: a sequence of Frame records
    colmap_reconstruction,  \* None, or a reconstruction and its transforms
    positive_z,     \* normalize_cameras: its positive_z argument
    scale_factor,   \* normalize_cameras: its scale_factor argument, in tenths
    pc,         \* NuwaDB: the position of the running method, or its outcome
    size,       \* calculate_object_mask: <<width, height>> of every image
    reduce_factor,          \* calculate_object_mask: its arguments
    shrink,                 \*   (shrink in hundredths)
    adjust_cameras,
    copy_org,
    mask_save_dir,
    masked_image_save_dir,
    masks,      \* calculate_object_mask: the local list masks
    flow,       \* the flow field raft_optical_flow_api returned last
    bbox,       \* the bbox handed to SAMAPI.segment_api last, <<>> before
    labels,     \* the components connectedComponentsWithStats labelled last
    files,      \* the file system: path |-> content
    entry,      \* frames as they were when the camera adjustment began
    returned    \* "None", or the value calculate_object_mask returned

poseVars == <<pose, pose0, K, K0, height, hist, perr>>

dbVars == <<frames, colmap_reconstruction, positive_z, scale_factor, pc>>

argVars == <<size, reduce_factor, shrink, adjust_cameras, copy_org,
             mask_save_dir, masked_image_save_dir>>

maskVars == <<argVars, masks, flow, bbox, labels, files, entry, returned>>

vars == <<poseVars, dbVars, maskVars>>

\* NuwaDB.colmap_reconstruction: None (the class default), or a
\* reconstruction followed by the world transforms applied to it so far
None == <<"None">>
Reconstruction == <<"Reconstruction">>

(***************************************************************************)
(* Bounds                                                                  *)
(***************************************************************************)
MaxConvCalls == 2
MaxRotCalls == 5

(***************************************************************************)
(* Matrices: a 4x4 matrix is a 4-tuple of rows, each a 4-tuple.            *)
(***************************************************************************)
MatMul(A, B) ==
    [i \in 1..4 |-> [j \in 1..4 |->
        A[i][1] * B[1][j] + A[i][2] * B[2][j]
      + A[i][3] * B[3][j] + A[i][4] * B[4][j]]]

\* The rows poses are built from in the pose-utility specifications.
PoseRows ==
    { <<1, 0, 0, 2>>, <<0, -1, 3, 0>>, <<2, 1, -1, -3>>, <<0, 0, 0, 1>> }

Poses == [1..4 -> PoseRows]

(***************************************************************************)
(* pose_utils.convert_camera_pose                                          *)
(***************************************************************************)
accepted_types == {"cv", "gl", "blender"}

\* A type outside accepted_types, to exercise the assertions.
CallTypes == accepted_types \cup {"ros"}

FlipYZ ==
    << <<1, 0, 0, 0>>,
       <<0, -1, 0, 0>>,
       <<0, 0, -1, 0>>,
       <<0, 0, 0, 1>> >>

NormType(t) == IF t = "blender" THEN "gl" ELSE t

convert_camera_pose_oneway(p, in_type, out_type) ==
    IF NormType(in_type) = NormType(out_type) \/ in_type # "cv"
    THEN p ELSE MatMul(p, FlipYZ)

\* The value returned for accepted types.
convert_camera_pose(p, in_type, out_type) ==
    IF NormType(in_type) = NormType(out_type) THEN p ELSE MatMul(p, FlipYZ)

ConvertOk ==
    /\ Len(hist) < MaxConvCalls
    /\ perr = ""
    /\ \E in_type \in accepted_types, out_type \in accepted_types :
          /\ pose' = convert_camera_pose(pose, in_type, out_type)
          /\ hist' = Append(hist, <<in_type, out_type>>)
    /\ UNCHANGED <<pose0, K, K0, height, perr, dbVars, maskVars>>

ConvertBadType ==
    /\ Len(hist) < MaxConvCalls
    /\ perr = ""
    /\ \E in_type \in CallTypes, out_type \in CallTypes :
          /\ in_type \notin accepted_types \/ out_type \notin accepted_types
          /\ hist' = Append(hist, <<in_type, out_type>>)
    /\ perr' = "AssertionError"
    /\ UNCHANGED <<pose, pose0, K, K0, height, dbVars, maskVars>>

(***************************************************************************)
(* pose_utils.get_rot90_camera_matrices                                    *)
(***************************************************************************)
Rot90 ==
    << <<0, 1, 0, 0>>,
       <<-1, 0, 0, 0>>,
       <<0, 0, 1, 0>>,
       <<0, 0, 0, 1>> >>

\* <<new pose, nfx, nfy, ncx, ncy>>
get_rot90_camera_matrices_wrongaxis(p, fx, fy, cx, cy, h) ==
    <<MatMul(p, Rot90), fy, fx, h - cx, cx>>

get_rot90_camera_matrices(p, fx, fy, cx, cy, h) ==
    <<MatMul(p, Rot90), fy, fx, h - cy, cx>>

Rotate90 ==
    /\ Len(hist) < MaxRotCalls
    /\ LET r == get_rot90_camera_matrices(pose, K[1], K[2], K[3], K[4], height)
       IN  /\ pose' = r[1]
           /\ K' = <<r[2], r[3], r[4], r[5]>>
    /\ hist' = Append(hist, "rot90")
    /\ UNCHANGED <<pose0, K0, height, perr, dbVars, maskVars>>

\* The dataset record is not used by the pose-utility specifications.
DbIdle ==
    /\ frames = <<>>
    /\ colmap_reconstruction = None
    /\ positive_z = TRUE
    /\ scale_factor = 10
    /\ pc = "idle"

\* calculate_object_mask is not running.
MaskIdle ==
    /\ size = <<0, 0>>
    /\ reduce_factor = 2
    /\ shrink = 2
    /\ adjust_cameras = TRUE
    /\ copy_org = TRUE
    /\ mask_save_dir = ""
    /\ masked_image_save_dir = ""
    /\ masks = <<>>
    /\ flow = <<>>
    /\ bbox = <<>>
    /\ labels = <<>>
    /\ files = <<>>
    /\ entry = <<>>
    /\ returned = "None"

(***************************************************************************)
(* The pose-utility specifications                                         *)
(***************************************************************************)
Focals == {2, 3}
Principals == {0, 1, 3}
Heights == {1, 4}

InitConv ==
    /\ pose0 \in Poses
    /\ pose = pose0
    /\ K0 = <<2, 3, 1, 0>>
    /\ K = K0
    /\ height = 4
    /\ hist = <<>>
    /\ perr = ""
    /\ DbIdle
    /\ MaskIdle

NextConv == ConvertOk \/ ConvertBadType

SpecConv == InitConv /\ [][NextConv]_vars

InitRot ==
    /\ pose0 \in Poses
    /\ pose = pose0
    /\ K0 \in Focals \X Focals \X Principals \X Principals
    /\ K = K0
    /\ height \in Heights
    /\ hist = <<>>
    /\ perr = ""
    /\ DbIdle
    /\ MaskIdle

NextRot == Rotate90

SpecRot == InitRot /\ [][NextRot]_vars

(***************************************************************************)
(* Frames.  A camera center is held exactly as [v, sf, m2], three integer  *)
(* coordinates v, a scale in tenths sf and a squared length m2, standing   *)
(* for the real vector  v * (sf / 10) / sqrt(m2).  A center read from a    *)
(* dataset is [v, 10, 1].  m2 = 0 stands for the NaN that 0 * (s / 0.0)    *)
(* gives in numpy.                                                         *)
(***************************************************************************)
Center(v) == [v |-> v, sf |-> 10, m2 |-> 1, carved |-> FALSE]

IsNaN(c) == c.m2 = 0

Norm2(v) == v[1] * v[1] + v[2] * v[2] + v[3] * v[3]

Frame(c, model) ==
    [pose |-> Center(c), model |-> model,
     image_path |-> <<>>, org_path |-> <<>>, mask_path |-> <<>>,
     w |-> 0, h |-> 0, fx |-> 0, fy |-> 0, cx |-> 0, cy |-> 0]

SetMin(S) == CHOOSE x \in S : \A y \in S : x <= y
SetMax(S) == CHOOSE x \in S : \A y \in S : x >= y

(***************************************************************************)
(* NuwaDB.normalize_cameras.  The centers are integers c; twice the offset *)
(* and twice the centered centers are integers, so the halving of lines    *)
(* 209 and 211 is exact.                                                   *)
(***************************************************************************)
\* camera_poses[:, :3, 3].min(0) and .max(0), for one coordinate k
CoordMin(cs, k) == SetMin({cs[i][k] : i \in 1..Len(cs)})
CoordMax(cs, k) == SetMax({cs[i][k] : i \in 1..Len(cs)})

OffsetTimes2_corner(cs, pz) ==
    << 2 * CoordMin(cs, 1),
       CoordMin(cs, 2) + CoordMax(cs, 2),
       IF pz THEN 2 * CoordMin(cs, 3) ELSE CoordMin(cs, 3) + CoordMax(cs, 3) >>

\* twice the offset of lines 208-211
OffsetTimes2(cs, pz) ==
    << CoordMin(cs, 1) + CoordMax(cs, 1),
       CoordMin(cs, 2) + CoordMax(cs, 2),
       IF pz THEN 2 * CoordMin(cs, 3) ELSE CoordMin(cs, 3) + CoordMax(cs, 3) >>

\* twice camera_poses[:, :3, 3] after line 212
CenteredTimes2(cs, off2) ==
    [i \in 1..Len(cs) |->
        << 2 * cs[i][1] - off2[1], 2 * cs[i][2] - off2[2], 2 * cs[i][3] - off2[3] >>]

MaxNorm2_uncentered(cs, ds) ==
    SetMax({Norm2(<<2 * cs[i][1], 2 * cs[i][2], 2 * cs[i][3]>>) : i \in 1..Len(cs)})

\* the square of twice np.linalg.norm(camera_poses[:, :3, 3], axis=-1).max();
\* cs are the centers before line 212, ds twice the centers after it
MaxNorm2(cs, ds) == SetMax({Norm2(ds[i]) : i \in 1..Len(ds)})

\* The pose written back for a centered center d (times 2) under
\* scale = s / (sqrt(m2) / 2):  (d / 2) * scale = d * s / sqrt(m2).
Scaled(d, s, m2) ==
    IF m2 = 0 THEN [v |-> <<0, 0, 0>>, sf |-> s, m2 |-> 0, carved |-> FALSE]
    ELSE [v |-> d, sf |-> s, m2 |-> m2, carved |-> FALSE]

\* What one call does to <<frames, colmap_reconstruction>>, and how it ends.
normalize_cameras(fs, recon, pz, s) ==
    LET cs   == [i \in 1..Len(fs) |-> fs[i].pose.v]
        off2 == OffsetTimes2(cs, pz)
        ds   == CenteredTimes2(cs, off2)
        m2   == MaxNorm2(cs, ds)
    IN  IF recon = None
        THEN \* line 213: None has no world_translate
             [outcome |-> "AttributeError", frames |-> fs, recon |-> recon]
        ELSE [outcome |-> "done",
              frames  |-> [i \in 1..Len(fs) |->
                              [fs[i] EXCEPT !.pose = Scaled(ds[i], s, m2)]],
              recon   |-> recon \o << <<"world_translate", -off2[1], -off2[2], -off2[3]>>,
                                      <<"world_scale", s, m2>> >>]

NormalizeCameras ==
    /\ pc = "start"
    /\ LET r == normalize_cameras(frames, colmap_reconstruction, positive_z, scale_factor)
       IN  /\ frames' = r.frames
           /\ colmap_reconstruction' = r.recon
           /\ pc' = r.outcome
    /\ UNCHANGED <<positive_z, scale_factor, poseVars, maskVars>>

(***************************************************************************)
(* The normalization specification                                         *)
(***************************************************************************)
MaxNormFrames == 3

CenterSet ==
    { <<0, 0, 0>>, <<1, 0, 2>>, <<3, 1, 0>>, <<0, 2, 1>>, <<-1, -2, 3>> }

\* All sequences over S of length 1..n
SeqsUpTo(S, n) == UNION {[1..k -> S] : k \in 1..n}

PoseIdle ==
    /\ pose0 = <<>>
    /\ pose = <<>>
    /\ K0 = <<>>
    /\ K = <<>>
    /\ height = 0
    /\ hist = <<>>
    /\ perr = ""

InitNorm ==
    /\ \E cs \in SeqsUpTo(CenterSet, MaxNormFrames) :
          frames = [i \in 1..Len(cs) |-> Frame(cs[i], "PINHOLE")]
    /\ colmap_reconstruction \in {None, Reconstruction}
    /\ positive_z \in BOOLEAN
    /\ scale_factor \in {10, 11}
    /\ pc = "start"
    /\ PoseIdle
    /\ MaskIdle

NextNorm == NormalizeCameras

SpecNorm == InitNorm /\ [][NextNorm]_vars

(***************************************************************************)
(* Images and masks.  A pixel is <<x, y>>, 0 <= x < width, 0 <= y <        *)
(* height; a mask is the set of its foreground pixels.                     *)
(***************************************************************************)
Pixels(W, H) == (0..(W - 1)) \X (0..(H - 1))

\* PIL's Image.reduce(f): the size of the reduced image
ReducedLen(n, f) == (n + f - 1) \div f

\* ref_mask of lines 123-124: the previous mask as a 0/1 uint8 image, reduced
\* by PIL (each output pixel is the rounded mean of its box,
\* (sum + n \div 2) \div n for a box of n pixels), then compared with 0.
ReducedMask(m, W, H, f) ==
    { q \in Pixels(ReducedLen(W, f), ReducedLen(H, f)) :
        LET box == { p \in Pixels(W, H) : p[1] \div f = q[1] /\ p[2] \div f = q[2] }
            n   == Cardinality(box)
        IN  (Cardinality(box \cap m) + (n \div 2)) \div n > 0 }

\* Python's int() of a quotient n / d with d > 0: truncation toward zero
TruncDiv(n, d) == IF n >= 0 THEN n \div d ELSE -((-n) \div d)

\* fg_pixels of lines 126-129 in half pixels: each foreground pixel of the
\* reduced mask moved by its flow vector (fl gives half pixels)
WarpedTimes2(rm, fl) == { <<2 * q[1] + fl[q][1], 2 * q[2] + fl[q][2]>> : q \in rm }

\* bbox of lines 130-138 for a non-empty point set: the bounding box, widened
\* on each side by shrink (shr hundredths) of its extent, truncated to
\* integers and multiplied by the reduce factor
BoxOf(pts2, shr, f) ==
    LET xmin2 == SetMin({p[1] : p \in pts2})
        xmax2 == SetMax({p[1] : p \in pts2})
        ymin2 == SetMin({p[2] : p \in pts2})
        ymax2 == SetMax({p[2] : p \in pts2})
        w2    == xmax2 - xmin2
        h2    == ymax2 - ymin2
    IN  << f * TruncDiv(100 * xmin2 - shr * w2, 200),
           f * TruncDiv(100 * ymin2 - shr * h2, 200),
           f * TruncDiv(100 * xmax2 + shr * w2, 200),
           f * TruncDiv(100 * ymax2 + shr * h2, 200) >>

(***************************************************************************)
(* cv2.connectedComponentsWithStats (8-connectivity): the components of a  *)
(* mask.  The order in which cv2 numbers them is left open: any order.     *)
(***************************************************************************)
Adjacent(p, q) ==
    /\ p # q
    /\ p[1] - q[1] \in {-1, 0, 1}
    /\ p[2] - q[2] \in {-1, 0, 1}

RECURSIVE Grow(_, _)
Grow(S, m) ==
    LET T == S \cup { q \in m : \E p \in S : Adjacent(p, q) }
    IN  IF T = S THEN S ELSE Grow(T, m)

Components(m) == { Grow({p}, m) : p \in m }

\* labels 1..n of the components, as a sequence of pixel sets
Labelings(m) ==
    LET C == Components(m)
    IN  { l \in [1..Cardinality(C) -> C] :
            \A a, b \in 1..Cardinality(C) : a # b => l[a] # l[b] }

\* np.argmax(stats[1:, 4]) + 1: the first label of the largest area
ArgMaxFirst(ls) ==
    CHOOSE k \in 1..Len(ls) :
        /\ \A j \in 1..Len(ls) : Cardinality(ls[j]) <= Cardinality(ls[k])
        /\ \A j \in 1..(k - 1) : Cardinality(ls[j]) < Cardinality(ls[k])

LargestComponent_empty(ls, W, H) ==
    IF Len(ls) = 0 THEN {} ELSE ls[ArgMaxFirst(ls)]

\* mask of lines 141-145: labels == maxcomp, or np.ones_like(mask) when
\* argmax raises ValueError on the empty stats[1:, 4]
LargestComponent(ls, W, H) ==
    IF Len(ls) = 0 THEN Pixels(W, H) ELSE ls[ArgMaxFirst(ls)]

(***************************************************************************)
(* Paths and files.  A path is <<directory, stem, extension>>; <<>> is no  *)
(* path.  Num gives the f"{i:06d}" of lines 177, 183 and 192.              *)
(***************************************************************************)
Num(i) == <<"000000", "000001", "000002", "000003", "000004", "000005">>[i + 1]

Put(fsys, path, content) ==
    [p \in (DOMAIN fsys) \cup {path} |-> IF p = path THEN content ELSE fsys[p]]

(***************************************************************************)
(* NuwaDB.calculate_object_mask, lines 110-148: the masking loop.          *)
(* Python's masks[i] is masks[i + 1] here.  Segs are the masks the         *)
(* segmentation oracle may return, Flows the displacements (in half        *)
(* pixels) the flow oracle may return.                                     *)
(***************************************************************************)
NumFrames == Len(frames)

AfterFrame(n) == IF n = NumFrames THEN "copy_org" ELSE "masking"

\* The flow fields over the reduced image: every pixel moved by the same
\* displacement of Flows, or each pixel <<x, y>> moved right by x pixels.
FlowFields(Flows) ==
    LET RP == Pixels(ReducedLen(size[1], reduce_factor),
                     ReducedLen(size[2], reduce_factor))
    IN  { [q \in RP |-> d] : d \in Flows } \cup { [q \in RP |-> <<2 * q[1], 0>>] }

\* i == 0: segment_img, then sam
Bootstrap(Segs) ==
    /\ pc = "masking"
    /\ Len(masks) = 0
    /\ \E mask \in Segs : masks' = <<mask>>
    /\ pc' = AfterFrame(1)
    /\ UNCHANGED <<flow, bbox, labels, files, entry, returned, argVars,
                   frames, colmap_reconstruction, positive_z, scale_factor, poseVars>>

\* i > 0, and the reduced previous mask has foreground
Propagate(Segs, Flows) ==
    /\ pc = "masking"
    /\ Len(masks) >= 1
    /\ LET ref_mask == ReducedMask(masks[Len(masks)], size[1], size[2], reduce_factor)
       IN  /\ ref_mask # {}
           /\ \E fl \in FlowFields(Flows) :
                 /\ flow' = fl
                 /\ bbox' = BoxOf(WarpedTimes2(ref_mask, fl), shrink, reduce_factor)
           /\ \E seg \in Segs : \E ls \in Labelings(seg) :
                 /\ labels' = ls
                 /\ masks' = Append(masks, LargestComponent(ls, size[1], size[2]))
    /\ pc' = AfterFrame(Len(masks) + 1)
    /\ UNCHANGED <<files, entry, returned, argVars,
                   frames, colmap_reconstruction, positive_z, scale_factor, poseVars>>

\* i > 0, and the reduced previous mask is empty: .min() of line 130 raises
\* ValueError on the empty fg_pixels, outside the try of line 141
PropagateFails(Flows) ==
    /\ pc = "masking"
    /\ Len(masks) >= 1
    /\ ReducedMask(masks[Len(masks)], size[1], size[2], reduce_factor) = {}
    /\ \E fl \in FlowFields(Flows) : flow' = fl
    /\ pc' = "ValueError"
    /\ UNCHANGED <<masks, bbox, labels, files, entry, returned, argVars,
                   frames, colmap_reconstruction, positive_z, scale_factor, poseVars>>

(***************************************************************************)
(* The masking specification: the loop alone, every oracle answer          *)
(***************************************************************************)
MaxFrames == 3

\* Where the cameras of a dataset stand.
CenterList == << <<0, 0, 0>>, <<1, 0, 2>>, <<3, 1, 0>>, <<0, 2, 1>>, <<-1, -2, 3>> >>

Sizes == { <<3, 1>>, <<2, 2>> }

UniformFlows == { <<0, 0>>, <<-3, -1>> }

AllMasks == SUBSET Pixels(size[1], size[2])

\* Frame k of n, of a dataset whose image files are named in reverse order
\* when rev holds.
InputFrame(k, n, model, rev) ==
    LET path == <<"in", IF rev THEN Num(n - k) ELSE Num(k - 1), "png">>
    IN  [Frame(CenterList[k], model) EXCEPT
            !.image_path = path, !.org_path = path,
            !.w = size[1], !.h = size[2], !.fx = 5, !.fy = 6, !.cx = 1, !.cy = 0]

InputFiles == [p \in {frames[k].image_path : k \in 1..Len(frames)} |-> <<"image", p>>]

InitMask ==
    /\ size \in Sizes
    /\ reduce_factor \in {1, 2}
    /\ shrink \in {2, 50}
    /\ adjust_cameras = FALSE
    /\ copy_org = FALSE
    /\ mask_save_dir = "out_masks"
    /\ masked_image_save_dir = "out_images"
    /\ \E n \in 1..MaxFrames :
          frames = [k \in 1..n |-> InputFrame(k, n, "PINHOLE", FALSE)]
    /\ files = InputFiles
    /\ colmap_reconstruction = None
    /\ positive_z = TRUE
    /\ scale_factor = 10
    /\ pc = "masking"
    /\ masks = <<>>
    /\ flow = <<>>
    /\ bbox = <<>>
    /\ labels = <<>>
    /\ entry = <<>>
    /\ returned = "None"
    /\ PoseIdle

NextMask ==
    \/ Bootstrap(AllMasks)
    \/ Propagate(AllMasks, UniformFlows)
    \/ PropagateFails(UniformFlows)

SpecMask == InitMask /\ [][NextMask]_vars

(***************************************************************************)
(* calculate_object_mask, lines 150-163: the copy_org block                *)
(***************************************************************************)
\* <<files, frames>> after the loop has handled frames 1..n
RECURSIVE CopyOrgLoop(_, _, _)
CopyOrgLoop(fsys, fs, n) ==
    IF n = 0 THEN <<fsys, fs>>
    ELSE LET before    == CopyOrgLoop(fsys, fs, n - 1)
             f         == before[2][n]
             new_path  == <<masked_image_save_dir, f.org_path[2], f.org_path[3]>>
             new_image == <<"masked", before[1][f.org_path], masks[n]>>
             mask_path == <<mask_save_dir, f.org_path[2], "png">>
         IN  << Put(Put(before[1], new_path, new_image), mask_path, <<"mask", masks[n]>>),
                [before[2] EXCEPT ![n].org_path = new_path] >>

CopyOrg ==
    /\ pc = "copy_org"
    /\ IF copy_org
       THEN LET r == CopyOrgLoop(files, frames, NumFrames)
            IN  files' = r[1] /\ frames' = r[2]
       ELSE UNCHANGED <<files, frames>>
    /\ pc' = "adjust"
    /\ UNCHANGED <<masks, flow, bbox, labels, entry, returned, argVars,
                   colmap_reconstruction, positive_z, scale_factor, poseVars>>

(***************************************************************************)
(* calculate_object_mask, lines 165-189: the adjust_cameras block.         *)
(* scene_carving and crop_images belong to nuwa.utils.seg_utils.           *)
(***************************************************************************)
\* scene_carving: one adjusted pose per frame
scene_carving(ms, fs) == [k \in 1..Len(fs) |-> [fs[k].pose EXCEPT !.carved = TRUE]]

\* The rectangles <<x0, y0, x1, y1>> (inclusive) crop_images may crop to: the
\* whole image, or the bounding box of all the masks.
CropRects(ms) ==
    LET all == UNION {ms[k] : k \in 1..Len(ms)}
    IN  {<<0, 0, size[1] - 1, size[2] - 1>>} \cup
        (IF all = {} THEN {}
         ELSE {<< SetMin({p[1] : p \in all}), SetMin({p[2] : p \in all}),
                  SetMax({p[1] : p \in all}), SetMax({p[2] : p \in all}) >>})

\* crop_images, masks: every mask cut to the rectangle
CropMasks(ms, r) ==
    [k \in 1..Len(ms) |->
        { <<p[1] - r[1], p[2] - r[2]>> : p \in { q \in ms[k] :
              r[1] <= q[1] /\ q[1] <= r[3] /\ r[2] <= q[2] /\ q[2] <= r[4] } }]

\* The first frame the assertion of line 181 fails on, Len(fs) + 1 if none
FirstNonPinhole(fs) ==
    SetMin({k \in 1..Len(fs) : fs[k].model # "PINHOLE"} \cup {Len(fs) + 1})

\* lines 180-189 for the frames before `stop`
UpdateInfo(fs, poses, r, stop) ==
    [k \in 1..Len(fs) |->
        IF k >= stop THEN fs[k]
        ELSE [fs[k] EXCEPT
                !.pose = poses[k],
                !.image_path = <<masked_image_save_dir, Num(k - 1), "png">>,
                !.w = r[3] - r[1] + 1,
                !.h = r[4] - r[2] + 1,
                !.cx = @ - r[1],
                !.cy = @ - r[2]]]

\* lines 176-177: the cropped images, written in frame order
RECURSIVE DumpImages(_, _, _)
DumpImages(fsys, r, n) ==
    IF n = 0 THEN fsys
    ELSE Put(DumpImages(fsys, r, n - 1),
             <<masked_image_save_dir, Num(n - 1), "png">>, <<"cropped", n, r>>)

AdjustCameras ==
    /\ pc = "adjust"
    /\ entry' = frames
    /\ IF ~adjust_cameras
       THEN /\ pc' = "save_masks"
            /\ UNCHANGED <<frames, colmap_reconstruction, masks, files>>
       ELSE LET n == normalize_cameras(frames, colmap_reconstruction, TRUE, 10)
            IN  /\ colmap_reconstruction' = n.recon
                /\ IF n.outcome # "done"
                   THEN /\ pc' = n.outcome
                        /\ frames' = n.frames
                        /\ UNCHANGED <<masks, files>>
                   ELSE \E r \in CropRects(masks) :
                          LET poses == scene_carving(masks, n.frames)
                              stop  == FirstNonPinhole(n.frames)
                          IN  /\ masks' = CropMasks(masks, r)
                              /\ files' = DumpImages(files, r, NumFrames)
                              /\ frames' = UpdateInfo(n.frames, poses, r, stop)
                              /\ pc' = IF stop <= NumFrames
                                       THEN "AssertionError" ELSE "save_masks"
    /\ UNCHANGED <<flow, bbox, labels, returned, argVars,
                   positive_z, scale_factor, poseVars>>

(***************************************************************************)
(* calculate_object_mask, lines 191-196: the masks saved and returned      *)
(***************************************************************************)
SaveMasks_stem(fsys, fs, n) ==
    <<fsys, [k \in 1..Len(fs) |->
                [fs[k] EXCEPT !.mask_path = <<mask_save_dir, fs[k].org_path[2], "png">>]]>>

\* <<files, frames>> after the loop has handled masks 1..n
RECURSIVE SaveMasksLoop(_, _, _)
SaveMasksLoop(fsys, fs, n) ==
    IF n = 0 THEN <<fsys, fs>>
    ELSE LET before    == SaveMasksLoop(fsys, fs, n - 1)
             mask_path == <<mask_save_dir, Num(n - 1), "png">>
         IN  << Put(before[1], mask_path, <<"mask", masks[n]>>),
                [before[2] EXCEPT ![n].mask_path = mask_path] >>

SaveMasks ==
    /\ pc = "save_masks"
    /\ LET r == SaveMasksLoop(files, frames, Len(masks))
       IN  files' = r[1] /\ frames' = r[2]
    /\ returned' = masks
    /\ pc' = "returned"
    /\ UNCHANGED <<masks, flow, bbox, labels, entry, argVars,
                   colmap_reconstruction, positive_z, scale_factor, poseVars>>

(***************************************************************************)
(* The run specification: the whole of calculate_object_mask for every     *)
(* choice of its arguments, with oracles that answer from a few masks      *)
(***************************************************************************)
FewMasks == { {}, {<<0, 0>>}, {<<1, 0>>, <<2, 0>>}, Pixels(size[1], size[2]) }

NoFlow == { <<0, 0>> }

\* The camera models of n frames: every frame PINHOLE, or all but one.
ModelLists(n) ==
    { [k \in 1..n |-> IF k = bad THEN "OPENCV" ELSE "PINHOLE"] : bad \in 0..n }

InitRun ==
    /\ size = <<3, 1>>
    /\ reduce_factor \in {1, 2}
    /\ shrink = 2
    /\ adjust_cameras \in BOOLEAN
    /\ copy_org \in BOOLEAN
    /\ mask_save_dir \in {"out_masks", "out_images"}
    /\ masked_image_save_dir = "out_images"
    /\ \E n \in 1..MaxFrames : \E models \in ModelLists(n) : \E rev \in BOOLEAN :
          frames = [k \in 1..n |-> InputFrame(k, n, models[k], rev)]
    /\ files = InputFiles
    /\ colmap_reconstruction \in {None, Reconstruction}
    /\ positive_z = TRUE
    /\ scale_factor = 10
    /\ pc = "masking"
    /\ masks = <<>>
    /\ flow = <<>>
    /\ bbox = <<>>
    /\ labels = <<>>
    /\ entry = <<>>
    /\ returned = "None"
    /\ PoseIdle

NextRun ==
    \/ Bootstrap(FewMasks)
    \/ Propagate(FewMasks, NoFlow)
    \/ PropagateFails(NoFlow)
    \/ CopyOrg
    \/ AdjustCameras
    \/ SaveMasks

SpecRun == InitRun /\ [][NextRun]_vars

\* ------------------------------- claims --------------------------------

(***************************************************************************)
(* C1: converting a pose from cv to gl and the result from gl back to cv   *)
(* returns the pose the run started from.                                  *)
(***************************************************************************)
ConvRoundTrip ==
    hist = << <<"cv", "gl">>, <<"gl", "cv">> >> => pose = pose0

ConvRoundTripWitness ==
    /\ hist = << <<"cv", "gl">>, <<"gl", "cv">> >>
    /\ pose = pose0
    /\ pose0[3] = <<2, 1, -1, -3>>

(***************************************************************************)
(* C2: four successive calls of get_rot90_camera_matrices, each fed the    *)
(* pose and intrinsics the previous one returned and the same height,      *)
(* return the original pose and the original <<fx, fy, cx, cy>>.           *)
(***************************************************************************)
Rot90FourTimes ==
    hist = <<"rot90", "rot90", "rot90", "rot90">> => pose = pose0 /\ K = K0

Rot90FourTimesWitness ==
    /\ hist = <<"rot90", "rot90", "rot90", "rot90">>
    /\ pose = pose0
    /\ K = K0
    /\ K0[1] # K0[2]
    /\ K0[3] # K0[4]
    /\ height # 2 * K0[4]

(***************************************************************************)
(* Helpers of the normalization claims                                     *)
(***************************************************************************)
RECURSIVE SumCoord(_, _, _)
SumCoord(fs, k, n) ==
    IF n = 0 THEN 0 ELSE fs[n].pose.v[k] + SumCoord(fs, k, n - 1)

WrittenCenters == [i \in 1..Len(frames) |-> frames[i].pose.v]

\* Some centered center is off the origin (the set is not degenerate).
SomeCenterOffOrigin == \E i \in 1..Len(frames) : frames[i].pose.v # <<0, 0, 0>>

\* |center|^2 compared with (scale_factor / 10)^2, cross-multiplied:
\* |v|^2 * (sf/10)^2 / m2  versus  (scale_factor/10)^2
NormAtMostScale(c) == Norm2(c.v) * c.sf * c.sf <= scale_factor * scale_factor * c.m2
NormEqualsScale(c) == Norm2(c.v) * c.sf * c.sf = scale_factor * scale_factor * c.m2

(***************************************************************************)
(* C3: after normalize_cameras(scale_factor = s) on a frame set whose      *)
(* centered camera centers are not all at the origin, every camera center  *)
(* has norm at most s and some camera center has norm exactly s.           *)
(***************************************************************************)
NormMaxIsScale ==
    (pc = "done" /\ SomeCenterOffOrigin) =>
        /\ \A i \in 1..Len(frames) :
              ~IsNaN(frames[i].pose) /\ NormAtMostScale(frames[i].pose)
        /\ \E i \in 1..Len(frames) : NormEqualsScale(frames[i].pose)

NormMaxIsScaleWitness ==
    /\ pc = "done"
    /\ Len(frames) = 3
    /\ scale_factor = 11
    /\ \E i \in 1..Len(frames) : NormEqualsScale(frames[i].pose)
    /\ \E i \in 1..Len(frames) :
          /\ frames[i].pose.v # <<0, 0, 0>>
          /\ ~NormEqualsScale(frames[i].pose)

(***************************************************************************)
(* C4 as stated: after normalize_cameras the centroid (mean) of the camera *)
(* centers written back has x = 0 and y = 0.                               *)
(***************************************************************************)
CentroidXYZero ==
    (pc = "done" /\ SomeCenterOffOrigin) =>
        /\ SumCoord(frames, 1, Len(frames)) = 0
        /\ SumCoord(frames, 2, Len(frames)) = 0

(***************************************************************************)
(* C4 as amended: after normalize_cameras on a non-degenerate frame set,   *)
(* the midpoint between the smallest and the largest x of the camera       *)
(* centers written back is 0, and so is the midpoint of the y's (the       *)
(* bounding box of the centers is centered in x and y, not their mean).    *)
(***************************************************************************)
MidrangeXYZero ==
    (pc = "done" /\ SomeCenterOffOrigin) =>
        /\ CoordMin(WrittenCenters, 1) + CoordMax(WrittenCenters, 1) = 0
        /\ CoordMin(WrittenCenters, 2) + CoordMax(WrittenCenters, 2) = 0

MidrangeXYZeroWitness ==
    /\ pc = "done"
    /\ SomeCenterOffOrigin
    /\ CoordMin(WrittenCenters, 1) + CoordMax(WrittenCenters, 1) = 0
    /\ CoordMin(WrittenCenters, 1) < 0
    /\ SumCoord(frames, 1, Len(frames)) # 0

(***************************************************************************)
(* C9 as stated: on a dataset with no attached reconstruction and          *)
(* non-degenerate camera centers, normalize_cameras completes without      *)
(* error and writes the recentered, rescaled pose back to every frame.     *)
(***************************************************************************)
NormalizeWithoutReconstruction ==
    LET cs == [i \in 1..Len(frames) |-> frames[i].pose.v]
    IN  (/\ pc \in {"done", "AttributeError"}
         /\ colmap_reconstruction = None
         /\ \E i, j \in 1..Len(cs) : cs[i] # cs[j])
        => /\ pc = "done"
           /\ \A i \in 1..Len(frames) : frames[i].pose.sf = scale_factor

(***************************************************************************)
(* Helpers of the masking claims                                           *)
(***************************************************************************)
FullImage == Pixels(size[1], size[2])

\* A propagation step (frame i > 0) has queried the segmentation oracle.
Propagated == bbox # <<>>

ZeroFlow == \A q \in DOMAIN flow : flow[q] = <<0, 0>>

(***************************************************************************)
(* C5 as stated: the bounding box handed to the segmentation oracle for a  *)
(* frame i > 0 is clipped to the image: 0 <= xmin <= xmax <= width and     *)
(* 0 <= ymin <= ymax <= height.                                            *)
(***************************************************************************)
BBoxClipped ==
    Propagated =>
        /\ 0 <= bbox[1] /\ bbox[1] <= bbox[3] /\ bbox[3] <= size[1]
        /\ 0 <= bbox[2] /\ bbox[2] <= bbox[4] /\ bbox[4] <= size[2]

(***************************************************************************)
(* C6 as stated: with a flow field that is zero everywhere and a previous  *)
(* mask that is the whole image, the box handed to the segmentation oracle *)
(* is the full image rectangle (read either as <<0, 0, width, height>> or  *)
(* as the inclusive <<0, 0, width - 1, height - 1>>).                      *)
(***************************************************************************)
FullMaskZeroFlowBox ==
    (/\ Propagated
     /\ pc # "ValueError"
     /\ masks[Len(masks) - 1] = FullImage
     /\ ZeroFlow)
    => bbox \in { <<0, 0, size[1], size[2]>>, <<0, 0, size[1] - 1, size[2] - 1>> }

(***************************************************************************)
(* C7: after the propagation step of a frame i > 0, if the labelling of    *)
(* the oracle's answer has no foreground component then masks[i] is the    *)
(* whole image and the run has not failed; otherwise masks[i] is the       *)
(* component of the largest area, the lowest label among equals.           *)
(***************************************************************************)
LargestComponentOrFull ==
    Propagated =>
        LET mask == masks[Len(masks)]
        IN  IF labels = <<>>
            THEN mask = FullImage /\ pc \in {"masking", "copy_org"}
            ELSE \E k \in 1..Len(labels) :
                    /\ mask = labels[k]
                    /\ \A j \in 1..Len(labels) :
                          Cardinality(labels[j]) <= Cardinality(labels[k])
                    /\ \A j \in 1..(k - 1) :
                          Cardinality(labels[j]) < Cardinality(labels[k])

LargestComponentOrFullWitness ==
    /\ Propagated
    /\ Len(masks) = 3
    /\ labels = <<>>
    /\ masks[3] = FullImage
    /\ masks[2] # FullImage
    /\ pc = "copy_org"

(***************************************************************************)
(* C8 as stated: when the camera adjustment fails because a frame's camera *)
(* model is not PINHOLE, no frame's pose, image_path or intrinsics has     *)
(* been modified by it.  (Stated for datasets of at least two frames, whose *)
(* centers do not all coincide.)                                           *)
(***************************************************************************)
AdjustAllOrNothing ==
    (pc = "AssertionError" /\ NumFrames >= 2) =>
        \A k \in 1..NumFrames :
            /\ frames[k].pose = entry[k].pose
            /\ frames[k].image_path = entry[k].image_path
            /\ <<frames[k].w, frames[k].h, frames[k].fx, frames[k].fy,
                 frames[k].cx, frames[k].cy>>
               = <<entry[k].w, entry[k].h, entry[k].fx, entry[k].fy,
                   entry[k].cx, entry[k].cy>>

(***************************************************************************)
(* C10: the masks are computed one frame at a time, in frame order, each   *)
(* step appending one mask and leaving the earlier ones alone; a run that  *)
(* returns, returns one mask per frame, and frame i's mask_path then names *)
(* the file that holds the i-th returned mask, whether or not the cameras  *)
(* were adjusted.                                                          *)
(***************************************************************************)
MasksReturned ==
    /\ pc = "masking" => Len(masks) < NumFrames
    /\ pc = "copy_org" => Len(masks) = NumFrames
    /\ pc = "returned" =>
          /\ Len(returned) = NumFrames
          /\ \A k \in 1..NumFrames :
                /\ frames[k].mask_path \in DOMAIN files
                /\ files[frames[k].mask_path] = <<"mask", returned[k]>>

OneMaskPerStep ==
    (pc = "masking" /\ pc' # "ValueError") =>
        \E mask \in SUBSET FullImage : masks' = Append(masks, mask)

MaskPerFrameInOrder == []MasksReturned /\ [][OneMaskPerStep]_vars

MaskPerFrameInOrderWitness ==
    /\ pc = "returned"
    /\ adjust_cameras
    /\ copy_org
    /\ NumFrames = 3
    /\ mask_save_dir = masked_image_save_dir
    /\ frames[1].org_path[2] = Num(2)
    /\ returned[1] # returned[2]
    /\ files[frames[3].mask_path] = <<"mask", returned[3]>>

====
